---- MODULE Spec2Model ----
(***************************************************************************)
(* Model of the capital-constrained decision-and-execution engine of the   *)
(* Solana trading agent: TradingBot.step (src/src/bot.py), Portfolio       *)
(* (src/src/execution/portfolio.py), exceed_max_drawdown                   *)
(* (src/src/strategy/risk.py), TradingSimulator                            *)
(* (src/src/execution/simulation_client.py), execute_trade                 *)
(* (src/src/execution/jupiter_client.py) and run_backtest                  *)
(* (src/src/utils/backtest.py).                                            *)
(*                                                                         *)
(* Number representation.  The program computes with floats; the model     *)
(* computes with exact numbers:                                            *)
(*   - every SOL amount and every number held in the Portfolio is an       *)
(*     integer count of units, SolScale units making 1.0;                  *)
(*   - a price handed to the engine is an integer (USD per SOL); a fill    *)
(*     price, which carries slippage, is an integer count of 1/PriceScale; *)
(*   - a USD value (amount * fill price) is an integer: lots * fill price, *)
(*     every traded amount being a whole number of lots of Lot units;      *)
(*   - entry_price, realized_pnl and unrealized_pnl are rationals [n, d]   *)
(*     in lowest terms, because the weighted average divides.              *)
(***************************************************************************)
EXTENDS Integers, Sequences, FiniteSets, TLC

VARIABLES
    prog,        \* entry point in use: "bot", "backtest" or "simulator"
    settings,    \* src.config.settings (immutable after start-up)
    portfolio,   \* the Portfolio instance (bot.portfolio / backtest portfolio)
    simulator,   \* the TradingSimulator instance (meaningful when settings.simulation_mode)
    nprices,     \* len(bot.prices); in a backtest the loop index i
    crashed,     \* an exception left step(): the run is over
    last,        \* what the last operation did (its log lines and return value)
    seen         \* highest total value the risk check has computed so far

vars == <<prog, settings, portfolio, simulator, nprices, crashed, last, seen>>

-----------------------------------------------------------------------------
(* Scales and program constants *)

\* fee_rate = 0.0025 = 1 / FeeDen
FeeDen == 400
\* one lot: the smallest traded amount of the model, whose fee is one unit
Lot == FeeDen
\* units per 1.0 SOL: 20000 lots, so that one lot is 0.00005 SOL
SolScale == 20000 * Lot
\* slippage_pct is drawn in tenths of a percent; price * (1 + slippage_pct / 100)
PriceScale == 10 * 100
\* "if self.position.amount_sol <= 0.0001"
ClosingEpsilon == SolScale \div 10000
\* "if len(prices) < 50"
MinHistory == 50
\* run_backtest: "qty = 1  # fixed 1 SOL for demo"
BacktestQty == 1 * SolScale

-----------------------------------------------------------------------------
(* Bounds and input sets *)

\* ticks of the bot (iterations of a backtest) after the first MinHistory prices
MaxExtraTicks == 3
\* successful trades recorded by a simulator used directly
MaxTrades == 3

MaxPrices == MinHistory + MaxExtraTicks

\* the absent price of AggregatedPriceFeed.get_price
NoPrice == 0 - 1
Prices == {1, 2, 200}
BacktestPrices == {1, 2}
\* random.uniform(0.1, 0.5), in tenths of a percent
Slippages == {1, 5}
\* TRADING_CAPITAL_SOL: 0 and 0.1
TradingCapitals == {0, SolScale \div 10}
\* MAX_POSITION_SIZE_PCT
PositionPcts == {80, 100, 150}
\* MAX_DRAWDOWN_PCT
DrawdownPcts == {20, 50}
\* SIMULATION_INITIAL_BALANCE: 0.05 and 2.0
InitialBalances == {SolScale \div 20, 2 * SolScale}
\* run_backtest(starting_cash): 0.0 and 3.0
StartingCash == {0, 3 * SolScale}
\* simulator used directly: TradingSimulator(initial_balance), simulate_trade(amount_sol)
DirectBalances == {3 * Lot, 8 * Lot}
DirectAmounts == {1 * Lot, 3 * Lot}
DirectPrices == {1, 2}
\* validate_trade_size called directly: the position held and the size proposed
HeldPositions == {0, SolScale \div 20, (8 * SolScale) \div 100}
ProposedSizes == {0 - SolScale \div 20, 0, (2 * SolScale) \div 100,
                  (5 * SolScale) \div 100, (8 * SolScale) \div 100, SolScale \div 10}
\* indicator values handed to generate_signal
RsiValues == {20, 50, 80}

-----------------------------------------------------------------------------
(* Exact rationals *)

Abs(x) == IF x < 0 THEN 0 - x ELSE x

Max(a, b) == IF a >= b THEN a ELSE b

Min(a, b) == IF a <= b THEN a ELSE b

RECURSIVE GCD(_, _)
GCD(a, b) == IF b = 0 THEN a ELSE GCD(b, a % b)

Rat(n, d) == LET g == GCD(Abs(n), d) IN [n |-> n \div g, d |-> d \div g]

RatOfInt(i) == [n |-> i, d |-> 1]

RatAdd(x, y) == Rat(x.n * y.d + y.n * x.d, x.d * y.d)

RatSub(x, y) == Rat(x.n * y.d - y.n * x.d, x.d * y.d)

RatMulInt(x, i) == Rat(x.n * i, x.d)

RatDivInt(x, i) == Rat(x.n, x.d * i)

RatLess(x, y) == x.n * y.d < y.n * x.d

RatZero == RatOfInt(0)

\* whole lots in an amount of units
Lots(amount) == amount \div Lot

-----------------------------------------------------------------------------
(* TradingSimulator *)

\* mutant: the new price also becomes the entry price
update_price_rebases(pos, new_price) ==
    [pos EXCEPT !.current_price = new_price,
                !.entry_price = RatOfInt(new_price),
                !.unrealized_pnl = RatZero]

\* SimulatedPosition.update_price
update_price(pos, new_price) ==
    [pos EXCEPT !.current_price = new_price,
                !.unrealized_pnl =
                    RatMulInt(RatSub(RatOfInt(new_price), pos.entry_price),
                              Lots(pos.amount_sol))]

\* TradingSimulator.__init__
NewSimulator(initial_balance) ==
    [initial_balance |-> initial_balance,
     sol_balance     |-> initial_balance,
     usd_balance     |-> 0,
     trades          |-> << >>,
     position        |-> << >>,
     total_fees_paid |-> 0,
     realized_pnl    |-> RatZero]

\* mutant: every record is written as a BUY
SimulatedTrade_always_buy(sim, side, amount_sol, actual_price, value_usd, fees_sol, slippage) ==
    [timestamp |-> Len(sim.trades) + 1,
     side |-> "BUY", amount_sol |-> amount_sol, price |-> actual_price,
     value_usd |-> value_usd, fees_sol |-> fees_sol, slippage_pct |-> slippage]

\* the SimulatedTrade built by a fill; time.time() is the number of the trade
SimulatedTrade(sim, side, amount_sol, actual_price, value_usd, fees_sol, slippage) ==
    [timestamp |-> Len(sim.trades) + 1,
     side |-> side, amount_sol |-> amount_sol, price |-> actual_price,
     value_usd |-> value_usd, fees_sol |-> fees_sol, slippage_pct |-> slippage]

\* mutant: the fee is left out of the sufficiency test
HasBalanceFor_without_fee(sim, amount_sol, fees_sol) == sim.sol_balance >= amount_sol

\* the sufficiency test of _simulate_buy: "if self.sol_balance < total_cost" fails
HasBalanceFor(sim, amount_sol, fees_sol) == sim.sol_balance >= amount_sol + fees_sol

\* mutant: a failed call still charges its fee
Rejected_charges_fee(sim, error, fees_sol) ==
    [success |-> FALSE, error |-> error, realized_pnl |-> RatZero,
     sim |-> [sim EXCEPT !.total_fees_paid = sim.total_fees_paid + fees_sol]]

\* the early return of _simulate_buy and _simulate_sell: success False, an error,
\* and the simulator as it was (fees_sol, computed by simulate_trade before the
\* call, is not charged)
Rejected(sim, error, fees_sol) ==
    [success |-> FALSE, error |-> error, realized_pnl |-> RatZero, sim |-> sim]

\* mutant: the plain mean of the old entry price and the new fill price
AveragePrice_unweighted(pos, actual_price, amount_sol) ==
    RatDivInt(RatAdd(pos.entry_price, RatOfInt(actual_price)), 2)

\* the weighted average of _simulate_buy
AveragePrice(pos, actual_price, amount_sol) ==
    RatDivInt(RatAdd(RatMulInt(pos.entry_price, Lots(pos.amount_sol)),
                     RatOfInt(actual_price * Lots(amount_sol))),
              Lots(pos.amount_sol + amount_sol))

\* "actual_price = price * (1 + slippage_pct / 100)", in 1/PriceScale
BuyFillPrice(price, slippage) == price * (PriceScale + slippage)

\* mutant: a Sell fills above the price
SellFillPrice_favourable(price, slippage) == price * (PriceScale + slippage)

\* "actual_price = price * (1 - slippage_pct / 100)", in 1/PriceScale
SellFillPrice(price, slippage) == price * (PriceScale - slippage)

\* TradingSimulator._simulate_buy; the result carries the simulator after the call
_simulate_buy(sim, amount_sol, price, fees_sol, slippage) ==
    LET total_cost   == amount_sol + fees_sol
        actual_price == BuyFillPrice(price, slippage)
        value_usd    == Lots(amount_sol) * actual_price
        trade        == SimulatedTrade(sim, "BUY", amount_sol, actual_price,
                                       value_usd, fees_sol, slippage)
        position     ==
            IF sim.position = << >>
            THEN [entry_timestamp |-> trade.timestamp,
                  entry_price    |-> RatOfInt(actual_price),
                  amount_sol     |-> amount_sol,
                  current_price  |-> actual_price,
                  unrealized_pnl |-> RatZero]
            ELSE [sim.position[1] EXCEPT
                      !.amount_sol    = sim.position[1].amount_sol + amount_sol,
                      !.entry_price   = AveragePrice(sim.position[1], actual_price,
                                                     amount_sol),
                      !.current_price = actual_price]
    IN  IF ~HasBalanceFor(sim, amount_sol, fees_sol)
        THEN Rejected(sim, "Balance insuficiente", fees_sol)
        ELSE [success |-> TRUE, error |-> "",
              realized_pnl |-> RatZero,
              sim |-> [sim EXCEPT
                         !.sol_balance     = sim.sol_balance - total_cost,
                         !.usd_balance     = sim.usd_balance + value_usd,
                         !.total_fees_paid = sim.total_fees_paid + fees_sol,
                         !.trades          = Append(sim.trades, trade),
                         !.position        = <<position>>]]

\* mutant: the cost basis is that of the whole position
SellPnl_of_whole_position(pos, amount_sol, value_usd) ==
    RatSub(RatOfInt(value_usd), RatMulInt(pos.entry_price, Lots(pos.amount_sol)))

\* the realized P&L of a sell: value_usd - entry_price * amount_sol
SellPnl(pos, amount_sol, value_usd) ==
    RatSub(RatOfInt(value_usd), RatMulInt(pos.entry_price, Lots(amount_sol)))

\* "if self.position.amount_sol <= 0.0001:  # Posicion cerrada"
PositionClosed(remaining) == remaining <= ClosingEpsilon

\* TradingSimulator._simulate_sell
_simulate_sell(sim, amount_sol, price, fees_sol, slippage) ==
    IF sim.position = << >> \/ sim.position[1].amount_sol < amount_sol
    THEN Rejected(sim, "Posicion insuficiente", fees_sol)
    ELSE LET pos          == sim.position[1]
             actual_price == SellFillPrice(price, slippage)
             value_usd    == Lots(amount_sol) * actual_price
             pnl          == SellPnl(pos, amount_sol, value_usd)
             trade        == SimulatedTrade(sim, "SELL", amount_sol, actual_price,
                                            value_usd, fees_sol, slippage)
             remaining    == pos.amount_sol - amount_sol
         IN  [success |-> TRUE, error |-> "",
              realized_pnl |-> pnl,
              sim |-> [sim EXCEPT
                         !.realized_pnl    = RatAdd(sim.realized_pnl, pnl),
                         !.sol_balance     = sim.sol_balance + (amount_sol - fees_sol),
                         !.usd_balance     = sim.usd_balance - value_usd,
                         !.total_fees_paid = sim.total_fees_paid + fees_sol,
                         !.trades          = Append(sim.trades, trade),
                         !.position        =
                             IF PositionClosed(remaining)
                             THEN << >>
                             ELSE <<[pos EXCEPT !.amount_sol = remaining]>>]]

\* TradingSimulator.simulate_trade, with the slippage drawn by random.uniform
simulate_trade(sim, side, amount_sol, price, slippage) ==
    LET fees_sol == amount_sol \div FeeDen
    IN  IF side = "BUY"
        THEN _simulate_buy(sim, amount_sol, price, fees_sol, slippage)
        ELSE _simulate_sell(sim, amount_sol, price, fees_sol, slippage)

\* TradingSimulator.update_current_price
update_current_price(sim, price) ==
    IF sim.position # << >>
    THEN [sim EXCEPT !.position = <<update_price(sim.position[1], price * PriceScale)>>]
    ELSE sim

-----------------------------------------------------------------------------
(* Portfolio *)

\* Portfolio(quote_balance=...) followed by Portfolio.__post_init__
NewPortfolio(quote_balance) ==
    LET q == IF quote_balance = 0 THEN settings.trading_capital_sol ELSE quote_balance
    IN  [base_balance    |-> 0,
         quote_balance   |-> q,
         peak_value      |-> q,
         trading_capital |-> settings.trading_capital_sol]

\* mutant: the SELL branch adds the quantity to base_balance
ApplyTrade_sell_adds(pf, side, quantity, price) ==
    IF side = "BUY"
    THEN [pf EXCEPT !.base_balance  = pf.base_balance + quantity,
                    !.quote_balance = pf.quote_balance - quantity * price]
    ELSE [pf EXCEPT !.base_balance  = pf.base_balance + quantity,
                    !.quote_balance = pf.quote_balance + quantity * price]

\* the real-mode branch of Portfolio.update_from_trade (fee = 0.0)
ApplyTrade(pf, side, quantity, price) ==
    IF side = "BUY"
    THEN [pf EXCEPT !.base_balance  = pf.base_balance + quantity,
                    !.quote_balance = pf.quote_balance - quantity * price]
    ELSE [pf EXCEPT !.base_balance  = pf.base_balance - quantity,
                    !.quote_balance = pf.quote_balance + quantity * price]

\* mutant: base_balance is not reset when the simulator holds no position
CopyFromSimulator_keeps_base(pf, result) ==
    IF result.success
    THEN [pf EXCEPT !.quote_balance = result.sim.sol_balance,
                    !.base_balance  = IF result.sim.position # << >>
                                      THEN result.sim.position[1].amount_sol
                                      ELSE pf.base_balance]
    ELSE pf

\* the simulation branch of Portfolio.update_from_trade: copy the simulator's result
CopyFromSimulator(pf, result) ==
    IF result.success
    THEN [pf EXCEPT !.quote_balance = result.sim.sol_balance,
                    !.base_balance  = IF result.sim.position # << >>
                                      THEN result.sim.position[1].amount_sol
                                      ELSE 0]
    ELSE pf

\* Portfolio.update_from_trade; success is the simulator's result (TRUE in real mode)
update_from_trade(pf, sim, side, quantity, price, slippage) ==
    IF settings.simulation_mode
    THEN LET result == simulate_trade(sim, side, quantity, price, slippage)
         IN  [portfolio |-> CopyFromSimulator(pf, result),
              simulator |-> result.sim,
              success   |-> result.success]
    ELSE [portfolio |-> ApplyTrade(pf, side, quantity, price),
          simulator |-> sim,
          success   |-> TRUE]

\* Portfolio.total_value
total_value(pf, price) == pf.quote_balance + pf.base_balance * price

\* Portfolio.get_available_capital
get_available_capital(pf) == Max(0, pf.trading_capital - pf.base_balance)

\* mutant: the ratio is not turned into a percentage
capital_utilization_pct_as_ratio(pf) ==
    IF pf.trading_capital > 0
    THEN LET g == GCD(Abs(pf.base_balance), pf.trading_capital)
         IN  Rat(pf.base_balance \div g, pf.trading_capital \div g)
    ELSE RatZero

\* the "capital_utilization_pct" entry of Portfolio.as_dict:
\* get_position_value_sol() / trading_capital * 100 if trading_capital > 0 else 0
\* (the fraction is reduced before the multiplication)
capital_utilization_pct(pf) ==
    IF pf.trading_capital > 0
    THEN LET g == GCD(Abs(pf.base_balance), pf.trading_capital)
         IN  Rat((pf.base_balance \div g) * 100, pf.trading_capital \div g)
    ELSE RatZero

\* Portfolio.as_dict: the entries every mode has
as_dict(pf) ==
    [SOL                     |-> pf.base_balance,
     USDC                    |-> pf.quote_balance,
     trading_capital         |-> pf.trading_capital,
     position_value_sol      |-> pf.base_balance,
     available_capital       |-> get_available_capital(pf),
     capital_utilization_pct |-> capital_utilization_pct(pf),
     simulation_mode         |-> settings.simulation_mode]

\* Portfolio.calculate_max_trade_size
calculate_max_trade_size(pf) ==
    Max(0, (pf.trading_capital * settings.max_position_size_pct) \div 100
           - Abs(pf.base_balance))

\* mutant: only the trading capital is tested
validate_trade_size_capital_only(pf, trade_size_sol) ==
    Abs(pf.base_balance) + Abs(trade_size_sol) <= pf.trading_capital

\* Portfolio.validate_trade_size: the "reason" entry of the returned dict
validate_trade_size_reason(pf, trade_size_sol) ==
    LET new_position == Abs(pf.base_balance) + Abs(trade_size_sol)
        max_position == (pf.trading_capital * settings.max_position_size_pct) \div 100
    IN  IF new_position > pf.trading_capital THEN "Exceeds trading capital"
        ELSE IF new_position > max_position THEN "Exceeds max position size"
        ELSE "Trade size valid"

\* TradingCapitalManager.validate_trade_size: the "valid" and "reason" entries of
\* the returned dict
capital_manager_validate_trade_size(trade_size_sol, current_position) ==
    LET new_position == Abs(current_position + trade_size_sol)
        max_allowed  == (settings.trading_capital_sol * settings.max_position_size_pct)
                          \div 100
    IN  IF new_position > settings.trading_capital_sol
        THEN [valid |-> FALSE, reason |-> "Trade would exceed trading capital",
              max_allowed    |-> settings.trading_capital_sol - Abs(current_position),
              suggested_size |-> Max(0, settings.trading_capital_sol
                                          - Abs(current_position))]
        ELSE IF new_position > max_allowed
        THEN [valid |-> FALSE, reason |-> "Trade would exceed max position size",
              max_allowed    |-> max_allowed - Abs(current_position),
              suggested_size |-> Max(0, max_allowed - Abs(current_position))]
        ELSE [valid |-> TRUE, reason |-> "Trade size is valid",
              max_allowed    |-> max_allowed,
              suggested_size |-> trade_size_sol]

\* Portfolio.validate_trade_size: the "valid" entry of the returned dict
validate_trade_size(pf, trade_size_sol) ==
    LET new_position == Abs(pf.base_balance) + Abs(trade_size_sol)
        max_position == (pf.trading_capital * settings.max_position_size_pct) \div 100
    IN  IF new_position > pf.trading_capital THEN FALSE
        ELSE IF new_position > max_position THEN FALSE
        ELSE TRUE

-----------------------------------------------------------------------------
(* Risk *)

\* mutant: the comparison is strict, "drawdown > settings.max_drawdown_pct"
DrawdownAbove(peak, current_value, pct) ==
    LET g == GCD(100, pct)
    IN  (peak - current_value) * (100 \div g) > (pct \div g) * peak

\* "drawdown >= settings.max_drawdown_pct" with
\* drawdown = (peak - current_value) / peak * 100, for peak > 0; both sides are
\* multiplied by peak and divided by gcd(100, pct)
DrawdownAtLeast(peak, current_value, pct) ==
    LET g == GCD(100, pct)
    IN  (peak - current_value) * (100 \div g) >= (pct \div g) * peak

\* mutant: a new high is reported but not stored in peak_value
exceed_max_drawdown_keeps_peak(pf, current_price) ==
    LET current_value == total_value(pf, current_price)
    IN  IF current_value > pf.peak_value
        THEN [fault |-> FALSE, breach |-> FALSE, value |-> current_value,
              portfolio |-> pf]
        ELSE IF pf.peak_value = 0
        THEN [fault |-> TRUE, breach |-> FALSE, value |-> current_value,
              portfolio |-> pf]
        ELSE [fault |-> FALSE,
              breach |-> DrawdownAtLeast(pf.peak_value, current_value,
                                         settings.max_drawdown_pct),
              value |-> current_value,
              portfolio |-> pf]

\* exceed_max_drawdown; fault is the ZeroDivisionError of dividing by a zero peak
exceed_max_drawdown(pf, current_price) ==
    LET current_value == total_value(pf, current_price)
    IN  IF current_value > pf.peak_value
        THEN [fault |-> FALSE, breach |-> FALSE, value |-> current_value,
              portfolio |-> [pf EXCEPT !.peak_value = current_value]]
        ELSE IF pf.peak_value = 0
        THEN [fault |-> TRUE, breach |-> FALSE, value |-> current_value,
              portfolio |-> pf]
        ELSE [fault |-> FALSE,
              breach |-> DrawdownAtLeast(pf.peak_value, current_value,
                                         settings.max_drawdown_pct),
              value |-> current_value,
              portfolio |-> pf]

-----------------------------------------------------------------------------
(* Strategy *)

\* the indicator values ema / rsi / bollinger_bands return for a history
\* ending in last_price
Indicators(last_price) ==
    [rsi      : RsiValues,
     upper_bb : {last_price, last_price + 1},
     lower_bb : {last_price - 1, last_price},
     ema12    : {last_price},
     ema50    : {last_price - 1}]

\* the indicator values a run can see at a history of n prices: generate_signal
\* computes none while the history is shorter than MinHistory
IndicatorDraws(n, last_price) ==
    IF n < MinHistory
    THEN {[rsi |-> 50, upper_bb |-> last_price, lower_bb |-> last_price,
           ema12 |-> last_price, ema50 |-> last_price]}
    ELSE Indicators(last_price)

\* the indicator values of a direct call of generate_signal: the two EMAs in
\* either order
SignalInputs(last_price) ==
    [rsi      : RsiValues,
     upper_bb : {last_price, last_price + 1},
     lower_bb : {last_price - 1, last_price},
     ema12    : {last_price},
     ema50    : {last_price - 1, last_price + 1}]

\* the history lengths of a direct call of generate_signal
HistoryLengths == {MinHistory - 1, MinHistory, MinHistory + 1}

\* mutant: SELL needs a price strictly above the upper band
generate_signal_strict_band(n, last_price, ind) ==
    IF n < MinHistory THEN "HOLD"
    ELSE IF ind.rsi > 70 /\ last_price > ind.upper_bb THEN "SELL"
    ELSE IF ind.rsi < 30 /\ last_price <= ind.lower_bb THEN "BUY"
    ELSE "HOLD"

\* generate_signal, for a history of n prices ending in last_price
generate_signal(n, last_price, ind) ==
    IF n < MinHistory THEN "HOLD"
    ELSE IF ind.rsi > 70 /\ last_price >= ind.upper_bb THEN "SELL"
    ELSE IF ind.rsi < 30 /\ last_price <= ind.lower_bb THEN "BUY"
    ELSE IF ind.ema12 > ind.ema50 /\ ind.rsi < 70 THEN "HOLD"
    ELSE "HOLD"

-----------------------------------------------------------------------------
(* Execution *)

\* execute_swap: the stub returns False
execute_swap == FALSE

\* the real-mode path of execute_trade; quote_ok: request_quote returned a quote
execute_trade(quote_ok) == IF ~quote_ok THEN FALSE ELSE execute_swap

-----------------------------------------------------------------------------
(* TradingBot.step *)

\* what an operation reports: its outcome, the inputs it saw, the result of the
\* risk check (breach, and the total value it computed), the trade it attempted
\* (side, quantity), whether the ledger update succeeded (fill), the result of
\* the on-chain execution, the side handed to log_trade and the realized P&L
\* a simulate_trade call returns; for a function called directly, its arguments
\* (args) and what it returned (ret)
NoReport ==
    [op |-> "init", outcome |-> "none", price |-> NoPrice, signal |-> "NONE",
     breach |-> FALSE, value |-> 0, side |-> "NONE", quantity |-> 0, fill |-> FALSE,
     on_chain |-> "none", logged |-> "NONE", pnl |-> RatZero,
     args |-> << >>, ret |-> << >>]

\* the result of one step(): the objects after it and its report
StepState(pf, sim, n, fault, value, report) ==
    [portfolio |-> pf, simulator |-> sim, nprices |-> n, crashed |-> fault,
     value |-> value, report |-> report]

\* execute_trade as a whole: with settings.simulation_mode (the simulator then
\* exists) the trade goes to simulate_trade and nothing goes on chain; otherwise
\* the real path is taken
execute_trade_call(sim, side, amount_sol, price, slippage, quote_ok) ==
    IF settings.simulation_mode
    THEN LET result == simulate_trade(sim, side, amount_sol, price, slippage)
         IN  [success |-> result.success, sim |-> result.sim, on_chain |-> "none"]
    ELSE [success  |-> execute_trade(quote_ok), sim |-> sim,
          on_chain |-> IF execute_trade(quote_ok) THEN "ok" ELSE "failed"]

\* mutant: the tick calls execute_trade's real path whatever the mode
OnChain_in_every_mode(quote_ok) ==
    IF execute_trade(quote_ok) THEN "ok" ELSE "failed"

\* the on-chain leg of a BUY or SELL tick: "if settings.simulation_mode ... else execute_trade"
OnChain(quote_ok) ==
    IF settings.simulation_mode THEN "none"
    ELSE IF execute_trade(quote_ok) THEN "ok" ELSE "failed"

\* mutant: the cash test "quote_balance >= trade_size_sol * price" is missing
CanBuy_without_cash_test(pf, trade_size_sol, price) ==
    /\ validate_trade_size(pf, trade_size_sol)
    /\ trade_size_sol > 0

\* "if validation[valid] and trade_size_sol > 0 and quote_balance >= trade_size_sol * price"
CanBuy(pf, trade_size_sol, price) ==
    /\ validate_trade_size(pf, trade_size_sol)
    /\ trade_size_sol > 0
    /\ pf.quote_balance >= trade_size_sol * price

\* mutant: a SELL signal sells half the position
SellSize_half(pf) == pf.base_balance \div 2

\* the size of a SELL: "trade_size_sol = self.portfolio.base_balance"
SellSize(pf) == pf.base_balance

\* the signal part of step(), after the risk check
trade_on_signal(pf, sim, n, price, signal, slippage, quote_ok, rep) ==
    IF signal = "BUY"
    THEN LET trade_size_sol == Min(calculate_max_trade_size(pf), get_available_capital(pf))
         IN  IF CanBuy(pf, trade_size_sol, price)
             THEN LET u == update_from_trade(pf, sim, "BUY", trade_size_sol, price, slippage)
                  IN  StepState(u.portfolio, u.simulator, n, FALSE, 0,
                          [rep EXCEPT !.outcome = "buy", !.side = "BUY",
                                      !.quantity = trade_size_sol, !.fill = u.success,
                                      !.logged = "BUY", !.on_chain = OnChain(quote_ok)])
             ELSE StepState(pf, sim, n, FALSE, 0,
                      [rep EXCEPT !.outcome = "buy_rejected", !.side = "BUY",
                                  !.quantity = trade_size_sol])
    ELSE IF signal = "SELL" /\ pf.base_balance > 0
    THEN LET trade_size_sol == SellSize(pf)
             u == update_from_trade(pf, sim, "SELL", trade_size_sol, price, slippage)
         IN  StepState(u.portfolio, u.simulator, n, FALSE, 0,
                 [rep EXCEPT !.outcome = "sell", !.side = "SELL",
                             !.quantity = trade_size_sol, !.fill = u.success,
                             !.logged = "SELL", !.on_chain = OnChain(quote_ok)])
    ELSE StepState(pf, sim, n, FALSE, 0, [rep EXCEPT !.outcome = "hold"])

\* mutant: the absent price is counted in the history
SkippedTick_counts_price(pf, sim, n) ==
    StepState(pf, sim, n + 1, FALSE, 0,
              [NoReport EXCEPT !.op = "step", !.outcome = "no_price"])

\* "if price is None: ... return": the tick ends before anything is touched
SkippedTick(pf, sim, n) ==
    StepState(pf, sim, n, FALSE, 0,
              [NoReport EXCEPT !.op = "step", !.outcome = "no_price"])

\* TradingBot.step
step(pf, sim, n, price, ind, slippage, quote_ok) ==
    IF price = NoPrice
    THEN SkippedTick(pf, sim, n)
    ELSE LET n1   == n + 1
             sim1 == IF settings.simulation_mode
                     THEN update_current_price(sim, price) ELSE sim
             risk == exceed_max_drawdown(pf, price)
             pf1  == risk.portfolio
             rep  == [NoReport EXCEPT !.op = "step", !.price = price,
                                      !.breach = risk.breach, !.value = risk.value]
         IN  IF risk.fault
             THEN [StepState(pf1, sim1, n1, TRUE, risk.value,
                             [rep EXCEPT !.outcome = "fault"])
                   EXCEPT !.value = risk.value]
             ELSE IF risk.breach /\ pf1.base_balance > 0
             THEN LET u == update_from_trade(pf1, sim1, "SELL", pf1.base_balance,
                                             price, slippage)
                  IN  [StepState(u.portfolio, u.simulator, n1, FALSE, risk.value,
                           [rep EXCEPT !.outcome = "stop_sell", !.side = "SELL",
                                       !.quantity = pf1.base_balance,
                                       !.fill = u.success, !.logged = "STOP_SELL"])
                       EXCEPT !.value = risk.value]
             ELSE LET signal == generate_signal(n1, price, ind)
                  IN  [trade_on_signal(pf1, sim1, n1, price, signal, slippage, quote_ok,
                                       [rep EXCEPT !.signal = signal])
                       EXCEPT !.value = risk.value]

\* the highest total value the risk check has computed, after one more
Seen(s, value) == IF s = << >> THEN <<value>> ELSE <<Max(s[1], value)>>

-----------------------------------------------------------------------------
(* run_backtest *)

\* one iteration of the loop of run_backtest
backtest_step(pf, sim, price, signal, slippage) ==
    LET rep == [NoReport EXCEPT !.op = "backtest", !.price = price, !.signal = signal]
    IN  IF signal = "BUY" /\ pf.quote_balance >= price * SolScale
        THEN LET u == update_from_trade(pf, sim, "BUY", BacktestQty, price, slippage)
             IN  [portfolio |-> u.portfolio, simulator |-> u.simulator,
                  report |-> [rep EXCEPT !.outcome = "buy", !.side = "BUY",
                                         !.quantity = BacktestQty, !.fill = u.success]]
        ELSE IF signal = "SELL" /\ pf.base_balance >= BacktestQty
        THEN LET u == update_from_trade(pf, sim, "SELL", BacktestQty, price, slippage)
             IN  [portfolio |-> u.portfolio, simulator |-> u.simulator,
                  report |-> [rep EXCEPT !.outcome = "sell", !.side = "SELL",
                                         !.quantity = BacktestQty, !.fill = u.success]]
        ELSE [portfolio |-> pf, simulator |-> sim,
              report |-> [rep EXCEPT !.outcome = "hold"]]

-----------------------------------------------------------------------------
(* The state machine *)

\* the settings a run can start with; the simulator exists in simulation mode only
Configurations ==
    { c \in [simulation_mode            : BOOLEAN,
             trading_capital_sol        : TradingCapitals,
             max_position_size_pct      : PositionPcts,
             max_drawdown_pct           : DrawdownPcts,
             simulation_initial_balance : InitialBalances \cup {0}] :
        c.simulation_mode <=> c.simulation_initial_balance # 0 }

\* config.py defaults, in simulation mode, for a simulator used directly
DefaultSettings ==
    [simulation_mode            |-> TRUE,
     trading_capital_sol        |-> SolScale \div 10,
     max_position_size_pct      |-> 80,
     max_drawdown_pct           |-> 20,
     simulation_initial_balance |-> 1 * SolScale]

Init ==
    /\ prog \in {"bot", "backtest", "simulator", "capital"}
    /\ settings \in Configurations \cup {DefaultSettings}
    /\ prog = "simulator" <=> settings = DefaultSettings
    /\ \E cash \in StartingCash :
          /\ prog # "backtest" => cash = 0
          /\ portfolio = NewPortfolio(cash)
    /\ \E b \in DirectBalances \cup {0} :
          /\ prog = "simulator" <=> b # 0
          /\ simulator = NewSimulator(IF b # 0 THEN b
                                      ELSE settings.simulation_initial_balance)
    /\ nprices = IF prog = "backtest" THEN MinHistory ELSE 0
    /\ crashed = FALSE
    /\ last = NoReport
    /\ seen = << >>

\* the slippage draws of a run: random.uniform is called by simulate_trade only
Draws == IF settings.simulation_mode THEN Slippages ELSE {0}

\* the answers of request_quote: it is called in real mode only
Quotes == IF settings.simulation_mode THEN {FALSE} ELSE BOOLEAN

\* one tick of the bot: TradingBot.step
Step ==
    /\ prog = "bot"
    /\ ~crashed
    /\ nprices < MaxPrices
    /\ \E price \in Prices \cup {NoPrice}, slippage \in Draws, quote_ok \in Quotes :
         \E ind \in IndicatorDraws(nprices + 1, price) :
            \E r \in {step(portfolio, simulator, nprices, price, ind, slippage, quote_ok)} :
                /\ portfolio' = r.portfolio
                /\ simulator' = r.simulator
                /\ nprices' = r.nprices
                /\ crashed' = r.crashed
                /\ last' = r.report
                /\ seen' = IF price = NoPrice THEN seen ELSE Seen(seen, r.value)
    /\ UNCHANGED <<prog, settings>>

\* one iteration of run_backtest
BacktestStep ==
    /\ prog = "backtest"
    /\ nprices < MaxPrices
    /\ \E price \in BacktestPrices, slippage \in Draws :
         \E ind \in IndicatorDraws(nprices + 1, price) :
            \E r \in {backtest_step(portfolio, simulator, price,
                                    generate_signal(nprices + 1, price, ind), slippage)} :
                /\ portfolio' = r.portfolio
                /\ simulator' = r.simulator
                /\ last' = r.report
    /\ nprices' = nprices + 1
    /\ UNCHANGED <<prog, settings, crashed, seen>>

\* a direct call of TradingSimulator.simulate_trade
SimulateTrade ==
    /\ prog = "simulator"
    /\ Len(simulator.trades) < MaxTrades
    /\ \E side \in {"BUY", "SELL"}, amount_sol \in DirectAmounts,
          price \in DirectPrices, slippage \in Slippages :
         \E r \in {simulate_trade(simulator, side, amount_sol, price, slippage)} :
             /\ simulator' = r.sim
             /\ last' = [NoReport EXCEPT !.op = "simulate_trade",
                             !.outcome = IF r.success THEN "filled" ELSE r.error,
                             !.price = price, !.side = side, !.quantity = amount_sol,
                             !.fill = r.success, !.pnl = r.realized_pnl]
    /\ UNCHANGED <<prog, settings, portfolio, nprices, crashed, seen>>

\* a direct call of Portfolio.validate_trade_size on a portfolio holding a position
ValidateTradeSize ==
    /\ prog = "capital"
    /\ \E held \in HeldPositions, trade_size_sol \in ProposedSizes :
         LET pf == [portfolio EXCEPT !.base_balance = held]
         IN  last' = [NoReport EXCEPT !.op = "Portfolio.validate_trade_size",
                          !.outcome = validate_trade_size_reason(pf, trade_size_sol),
                          !.value = held, !.quantity = trade_size_sol,
                          !.fill = validate_trade_size(pf, trade_size_sol)]
    /\ UNCHANGED <<prog, settings, portfolio, simulator, nprices, crashed, seen>>

\* a direct call of TradingCapitalManager.validate_trade_size
ManagerValidateTradeSize ==
    /\ prog = "capital"
    /\ \E held \in HeldPositions, trade_size_sol \in ProposedSizes :
         LET r == capital_manager_validate_trade_size(trade_size_sol, held)
         IN  last' = [NoReport EXCEPT
                          !.op = "TradingCapitalManager.validate_trade_size",
                          !.outcome = r.reason,
                          !.value = held, !.quantity = trade_size_sol,
                          !.fill = r.valid,
                          !.args = <<trade_size_sol, held>>, !.ret = <<r>>]
    /\ UNCHANGED <<prog, settings, portfolio, simulator, nprices, crashed, seen>>

\* a direct call of Portfolio.as_dict on a portfolio holding a position
AsDict ==
    /\ prog = "capital"
    /\ \E held \in HeldPositions :
         last' = [NoReport EXCEPT !.op = "Portfolio.as_dict", !.args = <<held>>,
                      !.ret = as_dict([portfolio EXCEPT !.base_balance = held])]
    /\ UNCHANGED <<prog, settings, portfolio, simulator, nprices, crashed, seen>>

\* a direct call of generate_signal
GenerateSignal ==
    /\ prog = "capital"
    /\ \E n \in HistoryLengths, last_price \in Prices :
         \E ind \in SignalInputs(last_price) :
            last' = [NoReport EXCEPT !.op = "generate_signal", !.price = last_price,
                         !.args = <<n, ind>>,
                         !.signal = generate_signal(n, last_price, ind)]
    /\ UNCHANGED <<prog, settings, portfolio, simulator, nprices, crashed, seen>>

\* a direct call of execute_trade
ExecuteTrade ==
    /\ prog = "simulator"
    /\ Len(simulator.trades) < MaxTrades
    /\ \E side \in {"BUY", "SELL"}, amount_sol \in DirectAmounts,
          price \in DirectPrices, slippage \in Draws, quote_ok \in Quotes :
         \E r \in {execute_trade_call(simulator, side, amount_sol, price,
                                      slippage, quote_ok)} :
             /\ simulator' = r.sim
             /\ last' = [NoReport EXCEPT !.op = "execute_trade",
                             !.outcome = IF r.success THEN "filled" ELSE "failed",
                             !.price = price, !.side = side, !.quantity = amount_sol,
                             !.fill = r.success, !.on_chain = r.on_chain]
    /\ UNCHANGED <<prog, settings, portfolio, nprices, crashed, seen>>

\* a direct call of TradingSimulator.update_current_price
UpdateCurrentPrice ==
    /\ prog = "simulator"
    /\ \E price \in DirectPrices :
         /\ simulator' = update_current_price(simulator, price)
         /\ last' = [NoReport EXCEPT !.op = "update_current_price", !.price = price]
    /\ UNCHANGED <<prog, settings, portfolio, nprices, crashed, seen>>

Next ==
    \/ Step
    \/ BacktestStep
    \/ SimulateTrade
    \/ ExecuteTrade
    \/ UpdateCurrentPrice
    \/ ValidateTradeSize
    \/ ManagerValidateTradeSize
    \/ GenerateSignal
    \/ AsDict

Spec == Init /\ [][Next]_vars

-----------------------------------------------------------------------------
(* Properties *)

\* the position limit of the configuration: min(trading_capital, max position)
PositionLimit ==
    Min(portfolio.trading_capital,
        (portfolio.trading_capital * settings.max_position_size_pct) \div 100)

\* (peak - value) / peak * 100 as an exact rational, for 0 < peak and value <= peak
DrawdownPct(peak, value) ==
    LET g == GCD(peak, peak - value)
    IN  Rat(((peak - value) \div g) * 100, peak \div g)

\* the step just taken ran the risk check to its end
RiskChecked(report) ==
    report.op = "step" /\ report.outcome \notin {"no_price", "fault"}

\* C1: after any sequence of ticks of the bot from a flat portfolio, the held
\* position (Portfolio.base_balance) never exceeds
\* min(trading_capital, trading_capital * max_position_size_pct / 100).
C1_PositionWithinLimit ==
    prog = "bot" => portfolio.base_balance <= PositionLimit

\* a tick has bought and the position stands at the limit
C1_Witness ==
    /\ prog = "bot"
    /\ last.outcome = "buy"
    /\ last.fill
    /\ portfolio.base_balance > 0
    /\ portfolio.base_balance = PositionLimit

\* C2: after every committed trade (a tick, a stop-loss liquidation, a backtest
\* step) the cash balance is not negative: Portfolio.quote_balance, and the
\* simulator's sol_balance.
C2_CashNotNegative ==
    /\ portfolio.quote_balance >= 0
    /\ simulator.sol_balance >= 0

\* a tick has bought with all the cash there was
C2_Witness ==
    /\ last.op = "step"
    /\ last.outcome = "buy"
    /\ last.fill
    /\ portfolio.base_balance > 0
    /\ portfolio.quote_balance = 0

C5_StopLossLiquidates ==
    [][(RiskChecked(last') /\ last'.breach /\ portfolio.base_balance > 0) =>
         /\ last'.outcome = "stop_sell"
         /\ last'.signal = "NONE"
         /\ last'.side = "SELL"
         /\ last'.quantity = portfolio.base_balance
         /\ last'.fill
         /\ last'.logged = "STOP_SELL"
         /\ portfolio'.base_balance = 0]_vars

\* a stop-loss tick has sold a position
C5_Witness ==
    /\ last.outcome = "stop_sell"
    /\ last.breach
    /\ last.quantity > 0
    /\ portfolio.base_balance = 0

\* the tick just taken attempted a trade: it passed the guards of step() and
\* called update_from_trade
Attempted(report) ==
    report.op = "step" /\ report.outcome \in {"buy", "sell", "stop_sell"}

\* the tick just taken reached a trade decision and did not carry it through: the
\* guard rejected it, the simulated fill failed, or the on-chain execution failed
NotCarriedThrough(report) ==
    \/ report.op = "step" /\ report.outcome = "buy_rejected"
    \/ Attempted(report) /\ ~report.fill
    \/ Attempted(report) /\ report.on_chain = "failed"

\* C6: a tick whose trade is rejected, whose simulated fill fails or whose
\* on-chain execution returns failure leaves Portfolio.base_balance and
\* Portfolio.quote_balance as they were.
C6_AllOrNothing ==
    [][NotCarriedThrough(last') =>
         /\ portfolio'.base_balance = portfolio.base_balance
         /\ portfolio'.quote_balance = portfolio.quote_balance]_vars

\* the simulator a call of simulate_trade finds: in a tick of the bot, step() has
\* called update_current_price before
SimulatorAtCall(report) ==
    IF report.op = "step" THEN update_current_price(simulator, report.price)
    ELSE simulator

\* the operation just performed called simulate_trade
CalledSimulator(report) ==
    /\ settings.simulation_mode
    /\ \/ report.op \in {"simulate_trade", "execute_trade"}
       \/ Attempted(report)
       \/ report.op = "backtest" /\ report.outcome \in {"buy", "sell"}

\* C7: a simulate_trade call that fails returns success = false with an error
\* and leaves sol_balance, usd_balance, position, trades, total_fees_paid and
\* realized_pnl of the simulator as they were.
C7_FailedTradeChangesNothing ==
    [][(CalledSimulator(last') /\ ~last'.fill) =>
         /\ simulator' = SimulatorAtCall(last')
         /\ last'.op = "simulate_trade" =>
               last'.outcome = IF last'.side = "BUY" THEN "Balance insuficiente"
                               ELSE "Posicion insuficiente"]_vars

\* a sell of more than the position holds has failed, after an earlier fill
C7_Witness ==
    /\ last.op = "simulate_trade"
    /\ last.side = "SELL"
    /\ ~last.fill
    /\ last.outcome = "Posicion insuficiente"
    /\ simulator.position # << >>
    /\ simulator.position[1].amount_sol < last.quantity

\* the fee simulate_trade computes for an amount
FeeOf(amount_sol) == amount_sol \div FeeDen

\* C8, as the code has it: a simulated Buy succeeds exactly when
\* sol_balance >= requested amount + fee, both in SOL and the fee being 0.25% of
\* the amount; the price and the slippage take no part in the test; otherwise
\* it fails with the insufficient-balance error.
C8_BuyNeedsAmountPlusFee ==
    [][(CalledSimulator(last') /\ last'.side = "BUY") =>
         /\ last'.fill <=>
               simulator.sol_balance >= last'.quantity + FeeOf(last'.quantity)
         /\ last'.fill =>
               simulator'.sol_balance
                 = simulator.sol_balance - (last'.quantity + FeeOf(last'.quantity))
         /\ (last'.op = "simulate_trade" /\ ~last'.fill) =>
               last'.outcome = "Balance insuficiente"]_vars

\* the fill price of the trade recorded last, in 1/PriceScale
LastFillPrice(sim) == sim.trades[Len(sim.trades)].price

\* C8 as stated: a simulated Buy succeeds only if
\* cash_balance >= requested_amount * fill_price + fee, fill_price being the
\* slippage-adjusted price (both sides multiplied by PriceScale).
C8_BuyNeedsAmountTimesFillPrice ==
    [][(last'.op = "simulate_trade" /\ last'.side = "BUY" /\ last'.fill) =>
         simulator.sol_balance * PriceScale
           >= last'.quantity * LastFillPrice(simulator')
              + FeeOf(last'.quantity) * PriceScale]_vars

\* a Buy has succeeded with a balance below amount * fill price + fee
C8_Witness ==
    /\ last.op = "simulate_trade"
    /\ last.side = "BUY"
    /\ last.fill
    /\ (simulator.sol_balance + last.quantity + FeeOf(last.quantity)) * PriceScale
         < last.quantity * LastFillPrice(simulator)
           + FeeOf(last.quantity) * PriceScale

\* the trades recorded since the position was opened
TradesOfPosition(sim) ==
    SubSeq(sim.trades, sim.position[1].entry_timestamp, Len(sim.trades))

RECURSIVE SumAmounts(_)
\* sum of amount_sol over a sequence of trades
SumAmounts(trades) ==
    IF trades = << >> THEN 0
    ELSE Head(trades).amount_sol + SumAmounts(Tail(trades))

RECURSIVE SumValues(_)
\* sum of fill price * amount (in lots) over a sequence of trades
SumValues(trades) ==
    IF trades = << >> THEN 0
    ELSE Head(trades).price * Lots(Head(trades).amount_sol) + SumValues(Tail(trades))

\* the position has been built by Buys only
OnlyBuys(sim) ==
    /\ sim.position # << >>
    /\ \A i \in DOMAIN TradesOfPosition(sim) : TradesOfPosition(sim)[i].side = "BUY"

\* C9: while a position has been built by Buys only, its entry_price is
\* sum(fill_price_i * amount_i) / sum(amount_i) over those Buys and its amount is
\* sum(amount_i).
C9_EntryIsWeightedAverage ==
    OnlyBuys(simulator) =>
        LET buys == TradesOfPosition(simulator)
            pos  == simulator.position[1]
        IN  /\ pos.amount_sol = SumAmounts(buys)
            /\ pos.entry_price = Rat(SumValues(buys), Lots(SumAmounts(buys)))

\* a position built by three Buys of different amounts at different fill prices
C9_Witness ==
    /\ OnlyBuys(simulator)
    /\ Len(TradesOfPosition(simulator)) = 3
    /\ TradesOfPosition(simulator)[1].price # TradesOfPosition(simulator)[2].price
    /\ TradesOfPosition(simulator)[1].amount_sol
         # TradesOfPosition(simulator)[2].amount_sol
    /\ simulator.position[1].entry_price.d > 1

\* C10: every successful Sell adds requested_amount * (fill_price - entry_price)
\* to realized_pnl, fill_price being the slippage-adjusted sell price; the amount
\* added is > 0 when fill_price > entry_price and < 0 when fill_price <
\* entry_price; a direct call returns it as realized_pnl.
C10_SellRealizesPnl ==
    [][(CalledSimulator(last') /\ last'.side = "SELL" /\ last'.fill) =>
         LET entry == simulator.position[1].entry_price
             fill  == RatOfInt(LastFillPrice(simulator'))
             delta == RatSub(simulator'.realized_pnl, simulator.realized_pnl)
         IN  /\ delta = RatMulInt(RatSub(fill, entry), Lots(last'.quantity))
             /\ RatLess(entry, fill) => RatLess(RatZero, delta)
             /\ RatLess(fill, entry) => RatLess(delta, RatZero)
             /\ last'.op = "simulate_trade" => last'.pnl = delta]_vars

\* a part of a position built by two Buys has been sold at a profit
C10_Witness ==
    /\ last.op = "simulate_trade"
    /\ last.side = "SELL"
    /\ last.fill
    /\ simulator.position # << >>
    /\ simulator.position[1].entry_price.d > 1
    /\ RatLess(RatZero, last.pnl)
    /\ simulator.realized_pnl = last.pnl

\* C11: after a successful Sell the position is absent exactly when the remaining
\* amount is below the closing epsilon, and then realized P&L has taken in the
\* residue as well: it has grown by (fill_price - entry_price) times the whole
\* amount the position held.
C11_ResidueAbsorbed ==
    [][(CalledSimulator(last') /\ last'.side = "SELL" /\ last'.fill) =>
         LET pos       == simulator.position[1]
             remaining == pos.amount_sol - last'.quantity
             fill      == RatOfInt(LastFillPrice(simulator'))
             delta     == RatSub(simulator'.realized_pnl, simulator.realized_pnl)
         IN  /\ simulator'.position = << >> <=> remaining < ClosingEpsilon
             /\ simulator'.position = << >> =>
                   delta = RatMulInt(RatSub(fill, pos.entry_price),
                                     Lots(pos.amount_sol))]_vars

TradingCapitalLimit == settings.trading_capital_sol

MaxPositionLimit == (settings.trading_capital_sol * settings.max_position_size_pct) \div 100

\* the call just made was one of the two validate_trade_size
Validated(report) ==
    report.op \in {"Portfolio.validate_trade_size",
                   "TradingCapitalManager.validate_trade_size"}

\* C13, as the code has it: Portfolio.validate_trade_size accepts a size exactly
\* when |position| + |size| is within both limits (trading_capital and
\* trading_capital * max_position_size_pct / 100);
\* TradingCapitalManager.validate_trade_size accepts exactly when
\* |position + size| is within both limits; a rejection has valid = false and a
\* reason naming the first limit exceeded.
C13_ValidationLimits ==
    [][Validated(last') =>
         LET new_position ==
                 IF last'.op = "Portfolio.validate_trade_size"
                 THEN Abs(last'.value) + Abs(last'.quantity)
                 ELSE Abs(last'.value + last'.quantity)
         IN  /\ last'.fill <=> /\ new_position <= TradingCapitalLimit
                               /\ new_position <= MaxPositionLimit
             /\ new_position > TradingCapitalLimit =>
                   last'.outcome \in {"Exceeds trading capital",
                                      "Trade would exceed trading capital"}
             /\ (new_position <= TradingCapitalLimit /\ new_position > MaxPositionLimit) =>
                   last'.outcome \in {"Exceeds max position size",
                                      "Trade would exceed max position size"}]_vars

\* C13 as stated: either validate_trade_size accepts a size exactly when
\* current_position + |size| <= trading_capital and
\* <= trading_capital * max_position_size_pct / 100.
C13_ValidationAsStated ==
    [][Validated(last') =>
         (last'.fill <=>
            /\ last'.value + Abs(last'.quantity) <= TradingCapitalLimit
            /\ last'.value + Abs(last'.quantity) <= MaxPositionLimit)]_vars

\* the capital manager has accepted a negative size although position + |size|
\* exceeds the trading capital
C13_Witness ==
    /\ last.op = "TradingCapitalManager.validate_trade_size"
    /\ last.fill
    /\ last.quantity < 0
    /\ last.value + Abs(last.quantity) > TradingCapitalLimit

\* C14: with trading capital 0.1 SOL, max position 80 %, a flat position and
\* price 200, a tick whose signal is BUY sizes the trade at 0.08 SOL, validation
\* accepts it and the Buy is executed in that tick: base_balance is 0.08 SOL
\* afterwards.
C14_BuyScenario ==
    [][(/\ prog = "bot"
        /\ settings.trading_capital_sol = SolScale \div 10
        /\ settings.max_position_size_pct = 80
        /\ portfolio.base_balance = 0
        /\ portfolio.quote_balance = portfolio.trading_capital
        /\ last'.op = "step"
        /\ last'.price = 200
        /\ last'.signal = "BUY") =>
         /\ last'.quantity = (8 * SolScale) \div 100
         /\ validate_trade_size(portfolio, last'.quantity)
         /\ last'.outcome = "buy"
         /\ last'.fill
         /\ portfolio'.base_balance = (8 * SolScale) \div 100]_vars

\* the tick just taken found no stop-loss to execute and evaluated a signal
SignalEvaluated(report) ==
    RiskChecked(report) /\ report.outcome # "stop_sell"

\* C15: in a tick whose signal is SELL while a position is open and the stop-loss
\* does not fire, the engine sells the whole position amount and the position is
\* absent when the tick ends (base_balance = 0, and in simulation mode the
\* simulator holds no position and has recorded one SELL of that amount).
C15_SellSignalClosesPosition ==
    [][(SignalEvaluated(last') /\ last'.signal = "SELL" /\ portfolio.base_balance > 0) =>
         /\ last'.outcome = "sell"
         /\ last'.side = "SELL"
         /\ last'.quantity = portfolio.base_balance
         /\ last'.fill
         /\ portfolio'.base_balance = 0
         /\ settings.simulation_mode =>
               /\ simulator'.position = << >>
               /\ Len(simulator'.trades) = Len(simulator.trades) + 1
               /\ simulator'.trades[Len(simulator'.trades)].side = "SELL"
               /\ simulator'.trades[Len(simulator'.trades)].amount_sol
                    = portfolio.base_balance]_vars

\* a SELL signal has closed a position in simulation mode
C15_Witness ==
    /\ settings.simulation_mode
    /\ last.op = "step"
    /\ last.outcome = "sell"
    /\ last.signal = "SELL"
    /\ last.fill
    /\ last.quantity > 0
    /\ portfolio.base_balance = 0
    /\ simulator.position = << >>

\* the fields of a position that only a trade may change
PositionCore(sim) ==
    IF sim.position = << >> THEN << >>
    ELSE <<sim.position[1].entry_timestamp, sim.position[1].entry_price,
           sim.position[1].amount_sol>>

\* C16: a tick whose signal is HOLD, the stop-loss not firing, changes nothing in
\* the ledger but the peak value and the position's mark (current price and
\* unrealized P&L): cash, position amount, entry price, realized P&L, fees paid
\* and the trade history are what they were.
C16_HoldLeavesLedger ==
    [][(SignalEvaluated(last') /\ last'.signal = "HOLD") =>
         /\ last'.outcome = "hold"
         /\ portfolio'.quote_balance = portfolio.quote_balance
         /\ portfolio'.base_balance = portfolio.base_balance
         /\ portfolio'.trading_capital = portfolio.trading_capital
         /\ simulator'.sol_balance = simulator.sol_balance
         /\ simulator'.usd_balance = simulator.usd_balance
         /\ simulator'.realized_pnl = simulator.realized_pnl
         /\ simulator'.total_fees_paid = simulator.total_fees_paid
         /\ simulator'.trades = simulator.trades
         /\ PositionCore(simulator') = PositionCore(simulator)]_vars

\* a HOLD tick has re-marked an open position: its unrealized P&L is not zero
C16_Witness ==
    /\ last.op = "step"
    /\ last.outcome = "hold"
    /\ last.signal = "HOLD"
    /\ nprices > MinHistory
    /\ simulator.position # << >>
    /\ simulator.position[1].unrealized_pnl # RatZero
    /\ simulator.position[1].current_price = last.price * PriceScale

\* C17: when the feed returns no price the tick is skipped: the price history,
\* the portfolio and the simulator are unchanged, and no risk check, signal
\* evaluation or trade takes place.
C17_NoPriceSkipsTick ==
    [][(last'.op = "step" /\ last'.price = NoPrice) =>
         /\ last' = [NoReport EXCEPT !.op = "step", !.outcome = "no_price"]
         /\ nprices' = nprices
         /\ portfolio' = portfolio
         /\ simulator' = simulator
         /\ seen' = seen
         /\ crashed' = crashed]_vars

\* a tick has been skipped while a position was open
C17_Witness ==
    /\ last.op = "step"
    /\ last.outcome = "no_price"
    /\ nprices >= MinHistory
    /\ portfolio.base_balance > 0

\* C18: in every reachable state of the simulator an open position has an amount
\* above the closing epsilon (so above 0).
C18_OpenPositionAboveEpsilon ==
    simulator.position # << >> => simulator.position[1].amount_sol > ClosingEpsilon

\* C19: the trade history is append-only: a successful simulate_trade appends
\* exactly one record, carrying the side and the amount of that trade; a failed
\* one, and every other operation, leaves the history as it was; the records
\* already there are never changed or removed.
C19_TradesAppendOnly ==
    [][/\ Len(simulator'.trades) >= Len(simulator.trades)
       /\ SubSeq(simulator'.trades, 1, Len(simulator.trades)) = simulator.trades
       /\ (CalledSimulator(last') /\ last'.fill) =>
             /\ Len(simulator'.trades) = Len(simulator.trades) + 1
             /\ simulator'.trades[Len(simulator'.trades)].side = last'.side
             /\ simulator'.trades[Len(simulator'.trades)].amount_sol = last'.quantity
       /\ ~(CalledSimulator(last') /\ last'.fill) =>
             simulator'.trades = simulator.trades]_vars

\* a failed call has left a history of a BUY and a SELL as it was
C19_Witness ==
    /\ last.op = "simulate_trade"
    /\ ~last.fill
    /\ Len(simulator.trades) = 2
    /\ simulator.trades[1].side = "BUY"
    /\ simulator.trades[2].side = "SELL"

\* the slippage bounds of random.uniform(0.1, 0.5), in tenths of a percent
MinSlippage == 1

MaxSlippage == 5

\* C20: every simulated fill records a slippage between 0.1 % and 0.5 %; a Buy
\* fills at price * (1 + slippage) >= price and a Sell at
\* price * (1 - slippage) <= price.
C20_SlippageAdverse ==
    [][(CalledSimulator(last') /\ last'.fill) =>
         LET trade == simulator'.trades[Len(simulator'.trades)]
             mark  == last'.price * PriceScale
         IN  /\ trade.slippage_pct >= MinSlippage
             /\ trade.slippage_pct <= MaxSlippage
             /\ trade.side = "BUY" =>
                   /\ trade.price = mark + last'.price * trade.slippage_pct
                   /\ trade.price >= mark
             /\ trade.side = "SELL" =>
                   /\ trade.price = mark - last'.price * trade.slippage_pct
                   /\ trade.price <= mark
             /\ trade.value_usd = Lots(trade.amount_sol) * trade.price]_vars

\* a Sell has filled 0.5 % below a price of 2
C20_Witness ==
    /\ last.op = "simulate_trade"
    /\ last.side = "SELL"
    /\ last.fill
    /\ last.price = 2
    /\ LastFillPrice(simulator) = 2 * PriceScale - 2 * MaxSlippage

\* C21: generate_signal returns HOLD for fewer than 50 prices; with 50 or more,
\* SELL if rsi > 70 and last_price >= upper band, otherwise BUY if rsi < 30 and
\* last_price <= lower band, otherwise HOLD; it returns nothing else. A tick of
\* the bot with fewer than 50 prices in its history evaluates HOLD.
C21_SignalRules ==
    [][/\ last'.op = "generate_signal" =>
            LET n   == last'.args[1]
                ind == last'.args[2]
                p   == last'.price
            IN  /\ last'.signal \in {"BUY", "SELL", "HOLD"}
                /\ n < 50 => last'.signal = "HOLD"
                /\ (n >= 50 /\ ind.rsi > 70 /\ p >= ind.upper_bb) => last'.signal = "SELL"
                /\ (n >= 50 /\ ~(ind.rsi > 70 /\ p >= ind.upper_bb)
                            /\ ind.rsi < 30 /\ p <= ind.lower_bb) => last'.signal = "BUY"
                /\ (n >= 50 /\ ~(ind.rsi > 70 /\ p >= ind.upper_bb)
                            /\ ~(ind.rsi < 30 /\ p <= ind.lower_bb)) => last'.signal = "HOLD"
       /\ SignalEvaluated(last') =>
            /\ last'.signal \in {"BUY", "SELL", "HOLD"}
            /\ nprices' < 50 => last'.signal = "HOLD"]_vars

\* generate_signal has returned SELL for exactly 50 prices, the last one on the
\* upper band
C21_Witness ==
    /\ last.op = "generate_signal"
    /\ last.signal = "SELL"
    /\ last.args[1] = 50
    /\ last.args[2].upper_bb = last.price

\* the configuration is valid: trading capital > 0, both percentages in (0, 100]
ConfigValid ==
    /\ settings.trading_capital_sol > 0
    /\ settings.max_position_size_pct > 0
    /\ settings.max_position_size_pct <= 100
    /\ settings.max_drawdown_pct > 0
    /\ settings.max_drawdown_pct <= 100

\* C22: the engine never processes a tick with an invalid configuration
\* (trading_capital <= 0, or max_position_size_pct or max_drawdown_pct outside
\* (0, 100]): construction fails instead.
C22_InvalidConfigNeverTicks ==
    (prog = "bot" /\ last.op = "step") => ConfigValid

\* C23: with a peak value of zero the drawdown check returns the safe default,
\* no breach, and the tick goes on: it does not fault on the division.
C23_ZeroPeakIsSafe ==
    [][(last'.op = "step" /\ last'.price # NoPrice /\ portfolio.peak_value = 0) =>
         /\ last'.outcome # "fault"
         /\ ~last'.breach
         /\ ~crashed']_vars

\* the view shows position / trading_capital * 100 for a position of the given
\* amount, and 0 when the trading capital is 0
UtilizationMatches(view, amount) ==
    LET u == view.capital_utilization_pct
    IN  IF settings.trading_capital_sol = 0 THEN u = RatZero
        ELSE LET g == GCD(amount, settings.trading_capital_sol)
             IN  u.n * (settings.trading_capital_sol \div g) = (amount \div g) * 100 * u.d

\* C24: capital_utilization_pct of the ledger view equals
\* position_value / trading_capital * 100 for the current position, and is 0 when
\* trading_capital is 0: in every state a run reaches, and for every direct call
\* of as_dict.
C24_CapitalUtilization ==
    /\ UtilizationMatches(as_dict(portfolio), portfolio.base_balance)
    /\ last.op = "Portfolio.as_dict" => UtilizationMatches(last.ret, last.args[1])

\* a Buy of 0.08 SOL from a flat position shows a utilization of 80 %
C24_Witness ==
    /\ last.op = "step"
    /\ last.outcome = "buy"
    /\ last.fill
    /\ portfolio.base_balance = last.quantity
    /\ portfolio.base_balance = (8 * SolScale) \div 100
    /\ as_dict(portfolio).capital_utilization_pct = RatOfInt(80)

\* C25: whenever the simulator holds a position, the unrealized_pnl stored in it
\* equals (current_price - entry_price) * amount_sol, also right after a Buy that
\* re-averages the entry price and after a partial Sell.
C25_UnrealizedPnlCurrent ==
    simulator.position # << >> =>
        LET pos == simulator.position[1]
        IN  pos.unrealized_pnl
              = RatMulInt(RatSub(RatOfInt(pos.current_price), pos.entry_price),
                          Lots(pos.amount_sol))

\* C26: the simulator's P&L reconciles: usd_balance + realized_pnl equals the
\* cost basis entry_price * amount_sol of the open position, and equals 0
\* whenever no position is open.
C26_PnlReconciles ==
    RatAdd(RatOfInt(simulator.usd_balance), simulator.realized_pnl)
      = IF simulator.position = << >>
        THEN RatZero
        ELSE RatMulInt(simulator.position[1].entry_price,
                       Lots(simulator.position[1].amount_sol))

\* C27: the simulator conserves SOL: sol_balance + the open position's amount
\* (0 when there is none) + total_fees_paid equals initial_balance.
C27_SolConserved ==
    simulator.sol_balance
      + (IF simulator.position = << >> THEN 0 ELSE simulator.position[1].amount_sol)
      + simulator.total_fees_paid
      = simulator.initial_balance

\* C28: a successful BUY applied through Portfolio.update_from_trade strictly
\* lowers quote_balance and raises base_balance by exactly the bought amount; a
\* successful SELL does not lower quote_balance and lowers base_balance by
\* exactly the sold amount; in simulation mode as well as in real mode.
C28_TradeMovesBalances ==
    [][(last'.op \in {"step", "backtest"} /\ last'.fill) =>
          IF last'.side = "BUY"
          THEN /\ portfolio'.quote_balance < portfolio.quote_balance
               /\ portfolio'.base_balance = portfolio.base_balance + last'.quantity
          ELSE /\ portfolio'.quote_balance >= portfolio.quote_balance
               /\ portfolio'.base_balance = portfolio.base_balance - last'.quantity]_vars

\* C29: a tick records a trade (log_trade and save_trade_data with side BUY or
\* SELL) only if the trade was applied in that tick: no record for a simulated
\* fill that failed, nor for a real execution that returned failure.
C29_RecordOnlyAppliedTrades ==
    [][(last'.op = "step" /\ last'.logged \in {"BUY", "SELL"}) =>
          /\ last'.fill
          /\ last'.on_chain # "failed"]_vars

\* C30: whenever TradingCapitalManager.validate_trade_size rejects a trade and
\* returns a positive suggested_size, validating that suggested_size against
\* the same current position is accepted.
C30_SuggestionIsValid ==
    (/\ last.op = "TradingCapitalManager.validate_trade_size"
     /\ ~last.ret[1].valid
     /\ last.ret[1].suggested_size > 0)
       => capital_manager_validate_trade_size(last.ret[1].suggested_size,
                                              last.args[2]).valid

====
